---- MODULE Spec2Model ----
(***************************************************************************)
(* Model of the Layout / Card pair of the CSS server-side vs client-side   *)
(* rendering demo.                                                         *)
(*                                                                         *)
(*   app/routes/index.jsx    loader(): the list of posts, Index renders    *)
(*                           <Layout items={items} />                      *)
(*   components/Layout.js    Layout({items}): one <Card> per item with     *)
(*                           isFirst / isLast (src/unnamed/part_004:55-69) *)
(*   components/Card.js      Card({item, isFirst, isLast}): className from *)
(*                           the props and useMedia("(min-width: 600px)",  *)
(*                           false)                                        *)
(*                                                                         *)
(* A page goes through a server render (no window, effects never run), a   *)
(* first client render pass (hydration, state at useMedia's default), and  *)
(* then the per-card effect of useMedia: it registers a change listener on *)
(* window.matchMedia(query), sets the state to mql.matches, and the        *)
(* listener sets it again on every change event; the effect's cleanup      *)
(* removes the listener.  A state update that changes the value schedules  *)
(* a render pass of that card.                                             *)
(***************************************************************************)
EXTENDS Integers, Sequences, FiniteSets, TLC

(* ---------------------------------------------------------------------- *)
(* Bounds and program constants                                            *)
(* ---------------------------------------------------------------------- *)

\* Longest input list that is explored.
MaxItems == 3

\* The threshold of the media query "(min-width: 600px)".
MinWidth == 600

\* loader(): the records the data-loading step returns.
Posts ==
  << [title |-> "Post 1", body |-> "First post"],
     [title |-> "Post 2", body |-> "Second post"],
     [title |-> "Post 3", body |-> "Third post"],
     [title |-> "Post 4", body |-> "Fourth post"],
     [title |-> "Post 5", body |-> "Fifth post"] >>

\* Input lists: the leading posts and the same list started one post later,
\* so that the item at an index differs between two inputs.
ItemLists ==
  { SubSeq(Posts, s, s + n - 1) : s \in 1..2, n \in 0..MaxItems }

\* Viewport widths around the threshold: one below it, two at or above it.
Widths == { MinWidth - 1, MinWidth, MinWidth + 1 }

\* A default of true instead of false.
DefaultStateTrue == TRUE

\* The second argument of useMedia: the state before the effect has run.
DefaultState == FALSE

(* ---------------------------------------------------------------------- *)
(* Card: the class string                                                  *)
(* ---------------------------------------------------------------------- *)

\* JS null inside the class array.  filter(c => c) drops null and "" alike and
\* join() prints null as "", so the empty string stands for it.
Null == ""

\* Array.prototype.filter(c => c): keeps the truthy entries, in order.
Filter(list) == SelectSeq(list, LAMBDA c : c # Null)

\* Array.prototype.join(sep).
RECURSIVE Join(_, _)
Join(list, sep) ==
  IF Len(list) = 0 THEN ""
  ELSE IF Len(list) = 1 THEN list[1]
  ELSE list[1] \o sep \o Join(Tail(list), sep)

\* ClassArray with CardLarge listed before CardFirst.
ClassArrayLargeSecond(isFirst, isLast, isMedium) ==
  << "Card",
     IF isMedium /\ isFirst THEN "CardLarge" ELSE Null,
     IF isFirst THEN "CardFirst" ELSE Null,
     IF isLast THEN "CardLast" ELSE Null >>

\* ClassArray with CardLast withheld from a card that is also the first.
ClassArrayLastNotFirst(isFirst, isLast, isMedium) ==
  << "Card",
     IF isFirst THEN "CardFirst" ELSE Null,
     IF isLast /\ ~isFirst THEN "CardLast" ELSE Null,
     IF isMedium /\ isFirst THEN "CardLarge" ELSE Null >>

\* ClassArray with CardLarge decided by the media query alone.
ClassArrayLargeAnywhere(isFirst, isLast, isMedium) ==
  << "Card",
     IF isFirst THEN "CardFirst" ELSE Null,
     IF isLast THEN "CardLast" ELSE Null,
     IF isMedium THEN "CardLarge" ELSE Null >>

\* ClassArray with CardLarge tied to the last card instead of the first.
ClassArrayLargeOnLast(isFirst, isLast, isMedium) ==
  << "Card",
     IF isFirst THEN "CardFirst" ELSE Null,
     IF isLast THEN "CardLast" ELSE Null,
     IF isMedium /\ isLast THEN "CardLarge" ELSE Null >>

\* ClassArray with the media query's result inverted.
ClassArrayLargeNegated(isFirst, isLast, isMedium) ==
  << "Card",
     IF isFirst THEN "CardFirst" ELSE Null,
     IF isLast THEN "CardLast" ELSE Null,
     IF ~isMedium /\ isFirst THEN "CardLarge" ELSE Null >>

\* ClassArray with CardLarge taking the place of CardFirst.
ClassArrayFirstUnlessLarge(isFirst, isLast, isMedium) ==
  << "Card",
     IF isFirst /\ ~isMedium THEN "CardFirst" ELSE Null,
     IF isLast THEN "CardLast" ELSE Null,
     IF isMedium /\ isFirst THEN "CardLarge" ELSE Null >>

\* The array literal of Card, before .filter().join().
ClassArray(isFirst, isLast, isMedium) ==
  << "Card",
     IF isFirst THEN "CardFirst" ELSE Null,
     IF isLast THEN "CardLast" ELSE Null,
     IF isMedium /\ isFirst THEN "CardLarge" ELSE Null >>

\* const classes = [...].filter(c => c).join(" ")
Classes(isFirst, isLast, isMedium) ==
  Join(Filter(ClassArray(isFirst, isLast, isMedium)), " ")

\* The element Card returns: <div className={classes}><h2>title</h2><p>body</p></div>
Card(p, isMedium) ==
  [ className |-> Classes(p.isFirst, p.isLast, isMedium),
    title     |-> p.item.title,
    body      |-> p.item.body ]

(* ---------------------------------------------------------------------- *)
(* Layout: one Card per item                                               *)
(* ---------------------------------------------------------------------- *)

\* CardProps with the positions compared as if the index were 1-based.
CardPropsOneBased(list, index) ==
  [ item    |-> list[index + 1],
    isFirst |-> index = 1,
    isLast  |-> index = Len(list) ]

\* The props of the Card at (0-based) index of items.map((item, index) => ...).
CardProps(list, index) ==
  [ item    |-> list[index + 1],
    isFirst |-> index = 0,
    isLast  |-> index = Len(list) - 1 ]

\* Layout that fills an empty list with one placeholder card.
LayoutPlaceholder(list) ==
  IF Len(list) = 0
  THEN << [ item |-> [title |-> "", body |-> ""], isFirst |-> TRUE, isLast |-> TRUE ] >>
  ELSE [ k \in 1..Len(list) |-> CardProps(list, k - 1) ]

\* Layout({items}): the props of the rendered cards, in list order.
Layout(list) == [ k \in 1..Len(list) |-> CardProps(list, k - 1) ]

(* ---------------------------------------------------------------------- *)
(* The viewport predicate source                                           *)
(* ---------------------------------------------------------------------- *)

\* window.matchMedia("(min-width: 600px)").matches at viewport width w.
Matches(w) == w >= MinWidth

(* ---------------------------------------------------------------------- *)
(* State                                                                   *)
(* ---------------------------------------------------------------------- *)

VARIABLES
  items,          \* the input list (useLoaderData())
  width,          \* the browser's viewport width
  hasMatchMedia,  \* whether window.matchMedia exists in the browser
  phase,          \* "request" | "served" | "client" | "crashed"
  error,          \* an exception escaped a component
  serverMarkup,   \* the cards' nodes as parsed from the server's HTML
  props,          \* the props Layout gave each card on the client
  dom,            \* the cards' nodes in the document, by position
  isMedium,       \* useMedia's state of each card
  effectPending,  \* cards whose useMedia effect has not run yet
  listeners,      \* cards with a change listener registered on the mql
  mountedFlag,    \* cards whose effect closure has mounted = true
  notified,       \* cards whose listener has a change event to handle
  dirty,          \* cards with a state update waiting for a render pass
  everLarge       \* rendered cards whose element has carried CardLarge at some time

vars ==
  << items, width, hasMatchMedia, phase, error, serverMarkup, props, dom,
     isMedium, effectPending, listeners, mountedFlag, notified, dirty,
     everLarge >>

Cards == 1..Len(items)
Mounted == DOMAIN dom

(* ---------------------------------------------------------------------- *)
(* The DOM's view of a class string                                        *)
(* ---------------------------------------------------------------------- *)

\* Split a string at each occurrence of a space (String.prototype.split(" ")).
RECURSIVE SplitFrom(_, _, _)
SplitFrom(s, start, i) ==
  IF i > Len(s) THEN << SubSeq(s, start, Len(s)) >>
  ELSE IF SubSeq(s, i, i) = " "
       THEN << SubSeq(s, start, i - 1) >> \o SplitFrom(s, i + 1, i + 1)
       ELSE SplitFrom(s, start, i + 1)

Split(s) == SplitFrom(s, 1, 1)

\* The token set of a class attribute: its space-separated, non-empty parts.
SplitTokens(s) ==
  LET parts == Split(s)
  IN  { t \in { parts[i] : i \in 1..Len(parts) } : t # "" }

\* The class strings Card can produce, each with its token set.
TokenTable ==
  [ s \in { Classes(f, l, m) : f \in BOOLEAN, l \in BOOLEAN, m \in BOOLEAN } |->
      SplitTokens(s) ]

\* The token set of a class string of a card.
Tokens(s) == TokenTable[s]

\* The DOM node of a card's element: the document keeps the class attribute
\* and, derived from it, the node's classList.
Node(el) ==
  [ className |-> el.className,
    classList |-> Tokens(el.className),
    title     |-> el.title,
    body      |-> el.body ]

\* node.classList as a set.
ClassSet(node) == node.classList

\* node.classList.contains(c)
HasClass(node, c) == c \in ClassSet(node)

(* ---------------------------------------------------------------------- *)
(* The earlier revision of Layout and Card                                 *)
(* ---------------------------------------------------------------------- *)

\* The props of the Card at index: the earlier Layout passes the index and
\* isLast, not isFirst.
CardPropsEarlier(list, index) ==
  [ item   |-> list[index + 1],
    index  |-> index,
    isLast |-> index = Len(list) - 1 ]

\* The earlier Layout({items}).
LayoutEarlier(list) == [ k \in 1..Len(list) |-> CardPropsEarlier(list, k - 1) ]

\* isFirst taken from a 1-based position.
IsFirstEarlierOneBased(index) == index = 1

\* const isFirst = index === 0, in the earlier Card.
IsFirstEarlier(index) == index = 0

\* The array literal of the earlier Card: CardLarge comes second.
ClassArrayEarlier(isFirst, isLast, medium) ==
  << "Card",
     IF medium /\ isFirst THEN "CardLarge" ELSE Null,
     IF isFirst THEN "CardFirst" ELSE Null,
     IF isLast THEN "CardLast" ELSE Null >>

\* const classes = [...].filter(c => c).join(" "), in the earlier Card.
ClassesEarlier(isFirst, isLast, medium) ==
  Join(Filter(ClassArrayEarlier(isFirst, isLast, medium)), " ")

\* The class strings the earlier Card can produce, each with its token set.
TokenTableEarlier ==
  [ s \in { ClassesEarlier(f, l, m) : f \in BOOLEAN, l \in BOOLEAN, m \in BOOLEAN } |->
      SplitTokens(s) ]

\* The node of the element the earlier Card({item, index, isLast}) returns.
CardEarlier(p, medium) ==
  LET classes == ClassesEarlier(IsFirstEarlier(p.index), p.isLast, medium)
  IN  [ className |-> classes,
        classList |-> TokenTableEarlier[classes],
        title     |-> p.item.title,
        body      |-> p.item.body ]

(* ---------------------------------------------------------------------- *)
(* Initial state                                                           *)
(* ---------------------------------------------------------------------- *)

Init ==
  /\ items \in ItemLists
  /\ width \in Widths
  /\ hasMatchMedia \in BOOLEAN
  /\ phase = "request"
  /\ error = FALSE
  /\ serverMarkup = << >>
  /\ props = << >>
  /\ dom = << >>
  /\ isMedium = << >>
  /\ effectPending = {}
  /\ listeners = {}
  /\ mountedFlag = {}
  /\ notified = {}
  /\ dirty = {}
  /\ everLarge = {}

(* ---------------------------------------------------------------------- *)
(* Actions                                                                 *)
(* ---------------------------------------------------------------------- *)

\* The server renders Index -> Layout -> Card.  There is no window: every
\* useMedia returns its default and no effect runs.
ServerRender ==
  /\ phase = "request"
  /\ phase' = "served"
  /\ serverMarkup' = [ k \in DOMAIN Layout(items) |-> Node(Card(Layout(items)[k], DefaultState)) ]
  /\ UNCHANGED << items, width, hasMatchMedia, error, props, dom, isMedium,
                  effectPending, listeners, mountedFlag, notified, dirty,
                  everLarge >>

\* The first client render pass (hydration): Layout maps the items to cards,
\* each card's useState starts at the default, and every card's effect is
\* scheduled.
Hydrate ==
  /\ phase = "served"
  /\ phase' = "client"
  /\ props' = Layout(items)
  /\ isMedium' = [ k \in DOMAIN Layout(items) |-> DefaultState ]
  /\ dom' = [ k \in DOMAIN Layout(items) |-> Node(Card(Layout(items)[k], DefaultState)) ]
  /\ effectPending' = DOMAIN Layout(items)
  /\ everLarge' = { k \in DOMAIN Layout(items) : HasClass(dom'[k], "CardLarge") }
  /\ UNCHANGED << items, width, hasMatchMedia, error, serverMarkup, listeners,
                  mountedFlag, notified, dirty >>

\* setState writing one state that all rendered cards share.
SetStateShared(k, v) ==
  /\ isMedium' = [ j \in DOMAIN isMedium |-> IF j \in Mounted THEN v ELSE isMedium[j] ]
  /\ dirty' = dirty \cup { j \in Mounted : isMedium[j] # v }

\* setState(v) of card k: React bails out when the value is the same,
\* otherwise it stores it and schedules a render pass of the card.
SetState(k, v) ==
  /\ isMedium' = [ isMedium EXCEPT ![k] = v ]
  /\ dirty' = IF v = isMedium[k] THEN dirty ELSE dirty \cup {k}

\* The effect registering the listener without reading mql.matches.
ActivateNoInitialRead(k) ==
  /\ phase = "client"
  /\ k \in effectPending
  /\ hasMatchMedia
  /\ effectPending' = effectPending \ {k}
  /\ mountedFlag' = mountedFlag \cup {k}
  /\ listeners' = listeners \cup {k}
  /\ UNCHANGED << isMedium, dirty >>
  /\ UNCHANGED << items, width, hasMatchMedia, phase, error, serverMarkup,
                  props, dom, notified, everLarge >>

\* useMedia's effect of card k (the activation step), window.matchMedia
\* present: mounted = true, mql.addListener(onChange), setState(mql.matches).
Activate(k) ==
  /\ phase = "client"
  /\ k \in effectPending
  /\ hasMatchMedia
  /\ effectPending' = effectPending \ {k}
  /\ mountedFlag' = mountedFlag \cup {k}
  /\ listeners' = listeners \cup {k}
  /\ SetState(k, Matches(width))
  /\ UNCHANGED << items, width, hasMatchMedia, phase, error, serverMarkup,
                  props, dom, notified, everLarge >>

\* useMedia's effect of card k, window.matchMedia absent: the call
\* window.matchMedia(query) throws a TypeError out of the effect; nothing in
\* Card or Layout catches it, and React takes the card tree down.
ActivateThrows(k) ==
  /\ phase = "client"
  /\ k \in effectPending
  /\ ~hasMatchMedia
  /\ error' = TRUE
  /\ phase' = "crashed"
  /\ dom' = << >>
  /\ effectPending' = {}
  /\ dirty' = {}
  /\ UNCHANGED << items, width, hasMatchMedia, serverMarkup, props, isMedium,
                  listeners, mountedFlag, notified, everLarge >>

\* The viewport is resized to w.  When the query's result changes, the mql
\* fires a change event at every registered listener.
Resize(w) ==
  /\ phase # "crashed"
  /\ w \in Widths
  /\ w # width
  /\ width' = w
  /\ notified' = IF hasMatchMedia /\ Matches(w) # Matches(width)
                 THEN notified \cup listeners
                 ELSE notified
  /\ UNCHANGED << items, hasMatchMedia, phase, error, serverMarkup, props, dom,
                  isMedium, effectPending, listeners, mountedFlag, dirty,
                  everLarge >>

\* onChange that takes the event and leaves the state as it is.
OnChangeIgnored(k) ==
  /\ k \in notified
  /\ notified' = notified \ {k}
  /\ UNCHANGED << isMedium, dirty >>
  /\ UNCHANGED << items, width, hasMatchMedia, phase, error, serverMarkup,
                  props, dom, effectPending, listeners, mountedFlag, everLarge >>

\* onChange of card k: if (!mounted) return; setState(!!mql.matches).
OnChange(k) ==
  /\ k \in notified
  /\ notified' = notified \ {k}
  /\ IF k \in mountedFlag
     THEN SetState(k, Matches(width))
     ELSE UNCHANGED << isMedium, dirty >>
  /\ UNCHANGED << items, width, hasMatchMedia, phase, error, serverMarkup,
                  props, dom, effectPending, listeners, mountedFlag, everLarge >>

\* A render pass of card k after a state update: Card runs again with the
\* props Layout gave it and the new state, and React commits the element.
Render(k) ==
  /\ phase = "client"
  /\ k \in dirty
  /\ k \in Mounted
  /\ dirty' = dirty \ {k}
  /\ dom' = [ dom EXCEPT ![k] = Node(Card(props[k], isMedium[k])) ]
  /\ everLarge' = IF HasClass(dom'[k], "CardLarge")
                  THEN everLarge \cup {k}
                  ELSE everLarge
  /\ UNCHANGED << items, width, hasMatchMedia, phase, error, serverMarkup,
                  props, isMedium, effectPending, listeners, mountedFlag,
                  notified >>

\* The cleanup setting mounted = false and leaving the listener registered.
UnmountKeepsListener(k) ==
  /\ phase = "client"
  /\ k \in Mounted
  /\ k \notin effectPending
  /\ mountedFlag' = mountedFlag \ {k}
  /\ dom' = [ j \in Mounted \ {k} |-> dom[j] ]
  /\ dirty' = dirty \ {k}
  /\ isMedium' = [ isMedium EXCEPT ![k] = DefaultState ]
  /\ everLarge' = everLarge \ {k}
  /\ UNCHANGED << items, width, hasMatchMedia, phase, error, serverMarkup,
                  props, effectPending, notified, listeners >>

\* Card k is removed from the page.  React has flushed its effect before the
\* render that removes it; the effect's cleanup runs: mounted = false,
\* mql.removeListener(onChange).  The card's element leaves the document and
\* its state is dropped.
Unmount(k) ==
  /\ phase = "client"
  /\ k \in Mounted
  /\ k \notin effectPending
  /\ mountedFlag' = mountedFlag \ {k}
  /\ listeners' = listeners \ {k}
  /\ dom' = [ j \in Mounted \ {k} |-> dom[j] ]
  /\ dirty' = dirty \ {k}
  /\ isMedium' = [ isMedium EXCEPT ![k] = DefaultState ]
  /\ everLarge' = everLarge \ {k}
  /\ UNCHANGED << items, width, hasMatchMedia, phase, error, serverMarkup,
                  props, effectPending, notified >>

Next ==
  \/ ServerRender
  \/ Hydrate
  \/ \E k \in Cards : Activate(k)
  \/ \E k \in Cards : ActivateThrows(k)
  \/ \E w \in Widths : Resize(w)
  \/ \E k \in Cards : OnChange(k)
  \/ \E k \in Cards : Render(k)
  \/ \E k \in Cards : Unmount(k)

Spec == Init /\ [][Next]_vars

\* A task of the browser's event loop: a dispatched change event handled by
\* its listener, or a scheduled render pass run by React.
Task == \E k \in Cards : OnChange(k) \/ Render(k)

\* The event loop keeps running tasks while there are any.
Fairness == WF_vars(Task)

\* The pages of the leading posts, on every viewport and browser.
InitLeading == Init /\ \E n \in 0..MaxItems : items = SubSeq(Posts, 1, n)

FairSpec == InitLeading /\ [][Next]_vars /\ Fairness

(* ---------------------------------------------------------------------- *)
(* Properties                                                              *)
(* ---------------------------------------------------------------------- *)

\* The class string of the canonical order (base, first, last, large), written
\* out for each combination of the three inputs.
CanonicalClassName(isFirst, isLast, isWideViewport) ==
  CASE  isFirst /\  isLast /\  isWideViewport -> "Card CardFirst CardLast CardLarge"
    []  isFirst /\  isLast /\ ~isWideViewport -> "Card CardFirst CardLast"
    []  isFirst /\ ~isLast /\  isWideViewport -> "Card CardFirst CardLarge"
    []  isFirst /\ ~isLast /\ ~isWideViewport -> "Card CardFirst"
    [] ~isFirst /\  isLast                    -> "Card CardLast"
    [] ~isFirst /\ ~isLast                    -> "Card"

\* C1: the class string of every rendered card, on the server and on the
\* client (once the card's pending state update, if any, is rendered), is the
\* canonical string for its isFirst, isLast and isWideViewport: tokens in the
\* order base, first, last, large, single spaces, nothing else.
C1_ClassString ==
  phase = "client" =>
    /\ \A k \in Mounted \ dirty :
         dom[k].className =
           CanonicalClassName(props[k].isFirst, props[k].isLast, isMedium[k])
    /\ \A k \in Cards :
         serverMarkup[k].className =
           CanonicalClassName(props[k].isFirst, props[k].isLast, DefaultState)

\* C1 witness: a single card, first and last, rendered wide.
C1_Witness ==
  /\ phase = "client"
  /\ \E k \in Mounted :
       /\ props[k].isFirst /\ props[k].isLast /\ isMedium[k] /\ k \notin dirty
       /\ dom[k].className = "Card CardFirst CardLast CardLarge"

\* C2: Layout renders one card per item, in list order; the card at position
\* k (index k - 1) has item k unchanged, isFirst iff it is the first position
\* and isLast iff it is the last.
C2_Layout ==
  /\ phase \in {"served", "client"} =>
       /\ Len(serverMarkup) = Len(items)
       /\ \A k \in Cards :
            /\ serverMarkup[k].title = items[k].title
            /\ serverMarkup[k].body = items[k].body
  /\ phase = "client" =>
       /\ Len(props) = Len(items)
       /\ effectPending = Cards => Mounted = Cards
       /\ \A k \in Cards :
            /\ props[k].item = items[k]
            /\ props[k].isFirst = (k = 1)
            /\ props[k].isLast = (k = Len(items))
       /\ \A k \in Mounted :
            /\ dom[k].title = items[k].title
            /\ dom[k].body = items[k].body

\* C2 witness: a list of three items rendered as three cards.
C2_Witness ==
  /\ phase = "client"
  /\ Len(items) = 3
  /\ Mounted = 1..3
  /\ items[1] = Posts[2]

\* The positions of a sequence of elements that carry class c.
Carrying(els, c) == { k \in DOMAIN els : HasClass(els[k], c) }

\* C3: for a non-empty list, while all its cards are rendered, exactly one
\* card carries CardFirst and exactly one carries CardLast, in the server's
\* markup and in the document at every later point; with one item the single
\* card carries both.
C3_OneFirstOneLast ==
  Len(items) >= 1 =>
    /\ phase \in {"served", "client"} =>
         /\ Cardinality(Carrying(serverMarkup, "CardFirst")) = 1
         /\ Cardinality(Carrying(serverMarkup, "CardLast")) = 1
         /\ Len(items) = 1 =>
              Carrying(serverMarkup, "CardFirst") = Carrying(serverMarkup, "CardLast")
    /\ (phase = "client" /\ Mounted = Cards) =>
         /\ Cardinality(Carrying(dom, "CardFirst")) = 1
         /\ Cardinality(Carrying(dom, "CardLast")) = 1
         /\ Len(items) = 1 => Carrying(dom, "CardFirst") = Carrying(dom, "CardLast")

\* C3 witness: a single card, activated on a wide viewport and rendered again.
C3_Witness ==
  /\ phase = "client"
  /\ Len(items) = 1
  /\ Mounted = Cards
  /\ effectPending = {}
  /\ Carrying(dom, "CardLarge") = {1}
  /\ Carrying(dom, "CardFirst") = {1}
  /\ Carrying(dom, "CardLast") = {1}

\* C4: a card that carries CardLarge carries CardFirst.
C4_LargeOnlyOnFirst ==
  /\ \A k \in DOMAIN serverMarkup :
       HasClass(serverMarkup[k], "CardLarge") => HasClass(serverMarkup[k], "CardFirst")
  /\ \A k \in Mounted :
       HasClass(dom[k], "CardLarge") => HasClass(dom[k], "CardFirst")

\* C4 witness: several cards, all with the wide state rendered, and one of
\* them carrying CardLarge.
C4_Witness ==
  /\ phase = "client"
  /\ Len(items) >= 2
  /\ Mounted = Cards
  /\ dirty = {}
  /\ \A k \in Cards : isMedium[k]
  /\ Carrying(dom, "CardLarge") # {}

\* C5: the server's markup carries no CardLarge, and a card whose effect has
\* not run yet has isWideViewport = false and no CardLarge, at any width.
C5_DefaultBeforeActivation ==
  /\ Carrying(serverMarkup, "CardLarge") = {}
  /\ \A k \in effectPending :
       /\ isMedium[k] = FALSE
       /\ ~HasClass(dom[k], "CardLarge")

\* C5 witness: the first client render pass on a viewport that is wide from
\* the start, the first card not yet activated.
C5_Witness ==
  /\ phase = "client"
  /\ hasMatchMedia
  /\ Matches(width)
  /\ 1 \in effectPending
  /\ serverMarkup # << >>

\* A step in which card k's pending state update is rendered.
RenderPass(k) == k \in dirty /\ k \notin dirty' /\ k \in DOMAIN dom'

\* A step in which card k's useMedia effect runs to its end.
Activation(k) == k \in effectPending /\ k \notin effectPending' /\ phase' = "client"

\* A step in which card k's change listener handles an event.
Notification(k) == k \in notified /\ k \notin notified' /\ k \in mountedFlag

C6_Step ==
  \A k \in Cards :
    /\ (Activation(k) /\ width >= MinWidth) => (isMedium'[k] /\ k \in dirty')
    /\ (RenderPass(k) /\ isMedium[k] /\ HasClass(dom[k], "CardFirst")) =>
         /\ ClassSet(dom'[k]) = ClassSet(dom[k]) \cup {"CardLarge"}
         /\ \A j \in DOMAIN dom' \ {k} : dom'[j] = dom[j]
    /\ (k \in Mounted /\ k \in DOMAIN dom' /\ ~HasClass(dom[k], "CardFirst")) =>
         ClassSet(dom'[k]) = ClassSet(dom[k])

\* C6: an activation at width >= 600 sets the card's state to true and
\* schedules a render pass; that pass adds CardLarge to the class set of the
\* card carrying CardFirst and touches no other card; the class set of a card
\* without CardFirst is the same before and after every step.
C6_SecondPassAddsLarge == [][C6_Step]_vars

\* C6 witness: two or more cards activated on a wide viewport and rendered
\* again: the first carries CardLarge, the others are as the server sent them.
C6_Witness ==
  /\ phase = "client"
  /\ Len(items) >= 2
  /\ Mounted = Cards
  /\ effectPending = {}
  /\ dirty = {}
  /\ width >= MinWidth
  /\ \A k \in Cards : isMedium[k]
  /\ HasClass(dom[1], "CardLarge")
  /\ ~HasClass(serverMarkup[1], "CardLarge")
  /\ \A k \in Cards \ {1} : dom[k] = serverMarkup[k]

\* C7 (as claimed): CardLarge changes at most once on a card.  It starts
\* absent, so a card whose element has carried it still carries it.
C7_AtMostOneFlip ==
  \A k \in Mounted : k \in everLarge => HasClass(dom[k], "CardLarge")

C7_Step ==
  \A k \in Mounted \cap DOMAIN dom' :
    HasClass(dom'[k], "CardLarge") # HasClass(dom[k], "CardLarge") =>
      /\ RenderPass(k)
      /\ k \notin effectPending
      /\ props[k].isFirst
      /\ HasClass(dom'[k], "CardLarge") = isMedium[k]

\* C7 (amended): CardLarge is absent until the card has activated; it changes
\* only on the first card, only in a render pass after a state update of the
\* card's subscription, and each change brings it to the card's current
\* isWideViewport; nothing limits the number of such changes.
C7_FlipsFollowViewport ==
  /\ [](\A k \in effectPending : ~HasClass(dom[k], "CardLarge"))
  /\ [][C7_Step]_vars

\* C7 witness: among several cards, the first has carried CardLarge and, after
\* a later render pass, carries it no more.
C7_Witness ==
  /\ phase = "client"
  /\ Len(items) >= 2
  /\ Mounted = Cards
  /\ everLarge = {1}
  /\ dirty = {}
  /\ ~HasClass(dom[1], "CardLarge")

C8_Pending ==
  \A k \in listeners \cap Mounted :
    (HasClass(dom[k], "CardLarge") /\ width < MinWidth) =>
      (k \in notified \/ (k \in dirty /\ ~isMedium[k]))

C8_Step ==
  \A k \in Cards :
    /\ (Notification(k) /\ width < MinWidth) =>
         (~isMedium'[k] /\ (isMedium[k] => k \in dirty'))
    /\ (RenderPass(k) /\ ~isMedium[k]) => ~HasClass(dom'[k], "CardLarge")

\* C8: while a subscribed card carries CardLarge and the viewport is below
\* 600px, a change event or a state update to false is pending for it; the
\* listener handling the event below 600px sets the state to false and
\* schedules a render pass; and that render pass leaves the card without
\* CardLarge.
C8_NarrowRemovesLarge == []C8_Pending /\ [][C8_Step]_vars

\* C8 witness: the only card gained CardLarge, the viewport narrowed, and the
\* render pass after the listener's update has removed it.
C8_Witness ==
  /\ phase = "client"
  /\ Len(items) = 1
  /\ 1 \in listeners
  /\ 1 \in everLarge
  /\ width < MinWidth
  /\ notified = {}
  /\ dirty = {}
  /\ dom[1].className = "Card CardFirst CardLast"

C9_SameAsServer ==
  phase = "client" =>
    \A k \in Mounted :
      /\ HasClass(dom[k], "CardFirst") = HasClass(serverMarkup[k], "CardFirst")
      /\ HasClass(dom[k], "CardLast") = HasClass(serverMarkup[k], "CardLast")
      /\ ClassSet(dom[k]) \ {"CardLarge"} = ClassSet(serverMarkup[k])

C9_Step ==
  \A k \in Mounted \cap DOMAIN dom' :
    ClassSet(dom'[k]) \ {"CardLarge"} = ClassSet(dom[k]) \ {"CardLarge"}

\* C9: every card's element in the document has CardFirst and CardLast
\* exactly as in the server's markup, in the first client pass and after every
\* later step, and two passes of a card differ in no token but CardLarge.
C9_FirstLastNeverFlip == []C9_SameAsServer /\ [][C9_Step]_vars

\* C9 witness: three cards after activation on a wide viewport: the first
\* card's class string differs from the server's, by CardLarge.
C9_Witness ==
  /\ phase = "client"
  /\ Len(items) = 3
  /\ Mounted = Cards
  /\ effectPending = {}
  /\ dirty = {}
  /\ dom[1].className # serverMarkup[1].className
  /\ ClassSet(dom[1]) = ClassSet(serverMarkup[1]) \cup {"CardLarge"}

\* C10 (as claimed): with window.matchMedia absent no error is raised, every
\* card stays at isWideViewport = false without CardLarge, and once the client
\* has rendered, the cards stay in the document with their server tokens.
C10_AbsentSourceDegrades ==
  ~hasMatchMedia =>
    /\ error = FALSE
    /\ phase # "crashed"
    /\ \A k \in DOMAIN isMedium : isMedium[k] = FALSE
    /\ \A k \in Mounted : ~HasClass(dom[k], "CardLarge")
    /\ phase = "client" =>
         /\ Mounted = Cards
         /\ \A k \in Cards : ClassSet(dom[k]) = ClassSet(serverMarkup[k])

\* C11: for an empty list the server's markup holds no card, the client
\* creates no card, no effect is scheduled, no listener is registered and no
\* error is raised, whether or not window.matchMedia exists.
C11_EmptyList ==
  Len(items) = 0 =>
    /\ serverMarkup = << >>
    /\ props = << >>
    /\ dom = << >>
    /\ isMedium = << >>
    /\ effectPending = {}
    /\ listeners = {}
    /\ mountedFlag = {}
    /\ notified = {}
    /\ error = FALSE
    /\ phase # "crashed"

\* C11 witness: the empty list rendered on the server and on a client without
\* window.matchMedia, on a wide viewport.
C11_Witness ==
  /\ Len(items) = 0
  /\ phase = "client"
  /\ ~hasMatchMedia
  /\ width >= MinWidth

\* Card k is rendered and its subscription is active.
Subscribed(k) == k \in Cards /\ k \in Mounted /\ k \in listeners

\* Card k is subscribed, and its state and, on the first card, its CardLarge
\* token agree with the viewport.
Settled(k) ==
  /\ Subscribed(k)
  /\ isMedium[k] = (width >= MinWidth)
  /\ props[k].isFirst => (HasClass(dom[k], "CardLarge") = (width >= MinWidth))

\* The viewport is on the given side of the threshold.
Side(wide) == (width >= MinWidth) = wide

C12_Step ==
  \A k \in Cards :
    /\ Activation(k) => (k \in listeners' /\ isMedium'[k] = (width >= MinWidth))
    /\ (width' >= MinWidth) # (width >= MinWidth) => listeners \subseteq notified'
    /\ Notification(k) => isMedium'[k] = (width >= MinWidth)

\* C12: the activation step registers the listener and sets isWideViewport to
\* the current predicate; every width change across 600px dispatches an event
\* to every registered listener, and handling it sets isWideViewport to the
\* predicate again; and, with events delivered and scheduled passes run, if
\* the viewport stays on one side of 600px, then from some point on every
\* subscribed card's isWideViewport equals (width >= 600) and the first card,
\* while subscribed, carries CardLarge exactly when width >= 600.
C12_FollowsViewport ==
  /\ [][C12_Step]_vars
  /\ \A wide \in BOOLEAN :
       <>[]Side(wide) => <>[](\A k \in Cards : Subscribed(k) => Settled(k))

\* C12 witness: three subscribed cards, activated below 600px, settled after
\* the viewport widened: every state is true and the first carries CardLarge.
C12_Witness ==
  /\ phase = "client"
  /\ Len(items) = 3
  /\ \A k \in Cards : Settled(k) /\ isMedium[k]
  /\ notified = {}
  /\ dirty = {}
  /\ width = MinWidth + 1
  /\ everLarge = {1}

\* The cards Layout rendered on the client that are no longer in the document.
Removed == DOMAIN props \ Mounted

C13_Released ==
  /\ listeners \subseteq Mounted
  /\ mountedFlag \subseteq Mounted
  /\ dirty \subseteq Mounted

C13_Step ==
  \A k \in Removed :
    /\ k \notin listeners'
    /\ isMedium'[k] = isMedium[k]
    /\ k \notin dirty'
    /\ k \notin DOMAIN dom'

\* C13: in every state the registered listeners, the live effect closures and
\* the scheduled render passes belong to cards that are in the document; and
\* once a card is removed no step registers a listener for it, changes its
\* state, schedules a render pass of it or puts it back, whatever the viewport
\* does and even when a change event dispatched before the removal is still
\* to be handled.
C13_SubscriptionReleased == []C13_Released /\ [][C13_Step]_vars

\* C13 witness: the first card was subscribed and removed with a change event
\* still to be handled, while the second card is subscribed.
C13_Witness ==
  /\ phase = "client"
  /\ Len(items) >= 2
  /\ 1 \in Removed
  /\ 1 \in notified
  /\ 2 \in listeners

\* A step that activates card k, has its listener handle an event, runs its
\* render pass or removes it from the document.
EventOf(k) ==
  \/ Activation(k)
  \/ k \in notified /\ k \notin notified'
  \/ RenderPass(k)
  \/ k \in Mounted /\ k \notin DOMAIN dom'

\* A step that changes card j's isWideViewport, its subscription or, while it
\* stays in the document, its class set.
OwnChanged(j) ==
  \/ isMedium'[j] # isMedium[j]
  \/ (j \in listeners') # (j \in listeners)
  \/ (j \in mountedFlag') # (j \in mountedFlag)
  \/ j \in Mounted /\ j \in DOMAIN dom' /\ ClassSet(dom'[j]) # ClassSet(dom[j])

C14_Step ==
  phase = "client" =>
    /\ \A k \in Cards : EventOf(k) => \A j \in Cards \ {k} : ~OwnChanged(j)
    /\ \A j \in Cards : OwnChanged(j) => EventOf(j)

\* C14: a step that activates a card, delivers a change event to it, renders
\* it or removes it changes the isWideViewport, the subscription and the class
\* set of no other card, and a card's isWideViewport, subscription and class
\* set change only in a step that is an event of that card.
C14_CardsIndependent == [][C14_Step]_vars

\* C14 witness: of three cards the last is removed and the first two are
\* subscribed with different isWideViewport values.
C14_Witness ==
  /\ phase = "client"
  /\ Len(items) = 3
  /\ Removed = {3}
  /\ {1, 2} \subseteq listeners
  /\ isMedium[1] # isMedium[2]

\* The node the earlier revision renders for position k with state medium.
EarlierNode(k, medium) == CardEarlier(LayoutEarlier(items)[k], medium)

\* C15: for every list, position and state of the viewport signal, the node
\* the earlier Layout/Card pair renders has the same set of class tokens, the
\* same title and the same body as the node the current pair rendered, in the
\* server's markup and in the document.
C15_RevisionsAgree ==
  /\ \A k \in DOMAIN serverMarkup :
       /\ ClassSet(EarlierNode(k, DefaultState)) = ClassSet(serverMarkup[k])
       /\ EarlierNode(k, DefaultState).title = serverMarkup[k].title
       /\ EarlierNode(k, DefaultState).body = serverMarkup[k].body
  /\ phase = "client" =>
       \A k \in Mounted \ dirty :
         /\ ClassSet(EarlierNode(k, isMedium[k])) = ClassSet(dom[k])
         /\ EarlierNode(k, isMedium[k]).title = dom[k].title
         /\ EarlierNode(k, isMedium[k]).body = dom[k].body

\* C15 witness: the first of several cards rendered wide: the current revision
\* gives "Card CardFirst CardLarge", the earlier one the same tokens in
\* another order.
C15_Witness ==
  /\ phase = "client"
  /\ Len(items) >= 2
  /\ 1 \in Mounted \ dirty
  /\ isMedium[1]
  /\ dom[1].className = "Card CardFirst CardLarge"
  /\ EarlierNode(1, isMedium[1]).className = "Card CardLarge CardFirst"

====
